---- MODULE Spec2Model ----
(***************************************************************************)
(* Lost & Found announcements (final_code_lost.py): a Streamlit script     *)
(* over one CSV table.  Every user interaction re-runs the script: the     *)
(* table is loaded from the file (load_data), one handler runs, and the    *)
(* table is written back (save_data) when the handler changed it.          *)
(*                                                                         *)
(* Text is modelled as a sequence of one-character strings, so that        *)
(* strip, lower, zfill, slicing and number formatting are computed as the  *)
(* code computes them.  A missing value of the DataFrame (NaN) is the      *)
(* one-element sequence <<"NaN">>, which no text equals.                   *)
(***************************************************************************)
EXTENDS Integers, Sequences, FiniteSets, TLC

VARIABLES
    file,         \* announcements.csv: [exists, rows], every cell a text
    df,           \* the script's table `df` at the end of the last run
    images,       \* number of files written to announcement_images/
    msg,          \* the last message the run reported (st.error/success/info)
    filt,         \* widget values of the View page in the last run
    shown,        \* the rows the last run displayed (`filtered`, storage order)
    pwOf,         \* history: ID -> password typed in the submission that created it
    maxAssigned,  \* history: largest numeric ID any submission was given
    page,         \* the page of the sidebar radio in the last run
    hasRerun      \* whether the runtime exposes st.experimental_rerun

vars == <<file, df, images, msg, filt, shown, pwOf, maxAssigned, page, hasRerun>>

\* ------------------------------------------------------------ bounds
MaxId == 2
MaxImages == 1
MaxRows == 2

\* ------------------------------------------------------------ text
NaN == <<"NaN">>
Empty == <<>>
Digits == <<"0", "1", "2", "3", "4", "5", "6", "7", "8", "9">>
Upper == <<"A", "B", "C", "D", "E", "F", "G", "H", "I", "J", "K", "L", "M",
           "N", "O", "P", "Q", "R", "S", "T", "U", "V", "W", "X", "Y", "Z">>
Lower == <<"a", "b", "c", "d", "e", "f", "g", "h", "i", "j", "k", "l", "m",
           "n", "o", "p", "q", "r", "s", "t", "u", "v", "w", "x", "y", "z">>
Whitespace == {" "}

IsDigitChar(c) == \E i \in 1..Len(Digits) : Digits[i] = c
DigitVal(c) == (CHOOSE i \in 1..Len(Digits) : Digits[i] = c) - 1

\* str.isdigit()
isdigit(s) == Len(s) > 0 /\ \A i \in 1..Len(s) : IsDigitChar(s[i])

\* str(n) of a non-negative int
RECURSIVE IntToStr(_)
IntToStr(n) == IF n < 10 THEN <<Digits[n + 1]>>
               ELSE IntToStr(n \div 10) \o <<Digits[(n % 10) + 1]>>

\* int(s) of a digit string
RECURSIVE StrToInt(_)
StrToInt(s) == IF Len(s) = 0 THEN 0
               ELSE StrToInt(SubSeq(s, 1, Len(s) - 1)) * 10 + DigitVal(s[Len(s)])

\* str.strip()
RECURSIVE lstrip(_)
lstrip(s) == IF Len(s) > 0 /\ s[1] \in Whitespace THEN lstrip(Tail(s)) ELSE s
RECURSIVE rstrip(_)
rstrip(s) == IF Len(s) > 0 /\ s[Len(s)] \in Whitespace
             THEN rstrip(SubSeq(s, 1, Len(s) - 1)) ELSE s
strip(s) == rstrip(lstrip(s))

\* str.lower()
LowerChar(c) == IF \E i \in 1..Len(Upper) : Upper[i] = c
                THEN Lower[CHOOSE i \in 1..Len(Upper) : Upper[i] = c] ELSE c
lower(s) == [i \in 1..Len(s) |-> LowerChar(s[i])]

\* str.zfill(w)
RECURSIVE zfill(_, _)
zfill(s, w) == IF Len(s) >= w THEN s ELSE zfill(<<"0">> \o s, w)

\* s[:n]
Prefix(s, n) == SubSeq(s, 1, IF Len(s) < n THEN Len(s) ELSE n)

\* date.strftime("%Y-%m-%d")
strftime(d) == zfill(IntToStr(d.y), 4) \o <<"-">> \o zfill(IntToStr(d.m), 2)
               \o <<"-">> \o zfill(IntToStr(d.d), 2)

\* ------------------------------------------------------------ option lists
Lost == <<"L", "o", "s", "t">>
Found == <<"F", "o", "u", "n", "d">>
TYPE_OPTIONS == <<Lost, Found>>
Pets == <<"P", "e", "t", "s">>
Electronics == <<"E", "l", "e", "c", "t", "r", "o", "n", "i", "c", "s">>
Bags == <<"B", "a", "g", "s">>
Jewelry == <<"J", "e", "w", "e", "l", "r", "y">>
PersonalItems == <<"P", "e", "r", "s", "o", "n", "a", "l", " ", "I", "t", "e", "m", "s">>
Others == <<"O", "t", "h", "e", "r", "s">>
CATEGORY_OPTIONS == <<Pets, Electronics, Bags, Jewelry, PersonalItems, Others>>
KuwaitCity == <<"K", "u", "w", "a", "i", "t", " ", "C", "i", "t", "y">>
Salmiya == <<"S", "a", "l", "m", "i", "y", "a">>
Hawally == <<"H", "a", "w", "a", "l", "l", "y">>
Jahra == <<"J", "a", "h", "r", "a">>
Farwaniya == <<"F", "a", "r", "w", "a", "n", "i", "y", "a">>
Ahmadi == <<"A", "h", "m", "a", "d", "i">>
MubarakAlKabeer == <<"M", "u", "b", "a", "r", "a", "k", " ", "A", "l", "-",
                     "K", "a", "b", "e", "e", "r">>
CITY_OPTIONS == <<KuwaitCity, Salmiya, Hawally, Jahra, Farwaniya, Ahmadi, MubarakAlKabeer>>
All == <<"A", "l", "l">>
IMAGES_FOLDER == <<"a", "n", "n", "o", "u", "n", "c", "e", "m", "e", "n", "t", "_",
                   "i", "m", "a", "g", "e", "s">>

Range(s) == {s[i] : i \in 1..Len(s)}

\* ------------------------------------------------------------ store
columns == <<"ID", "Type", "Category", "City", "Description", "Image1", "Image2",
             "Image3", "Phone", "Date", "EventDate", "DeletePassword", "Resolved">>

TrueText == <<"T", "r", "u", "e">>
FalseText == <<"F", "a", "l", "s", "e">>

\* The texts pd.read_csv reads as a missing value (its default na_values, kept
\* with dtype=str): the empty field and the NA spellings.
NA_VALUES == { Empty, <<"N", "A">>, <<"N", "/", "A">>, <<"n", "/", "a">>,
               <<"N", "U", "L", "L">>, <<"n", "u", "l", "l">>, <<"N", "a", "N">>,
               <<"n", "a", "n">>, <<"-", "N", "a", "N">>, <<"-", "n", "a", "n">>,
               <<"#", "N", "/", "A">>, <<"#", "N", "A">>,
               <<"#", "N", "/", "A", " ", "N", "/", "A">>,
               <<"<", "N", "A", ">">>,
               <<"1", ".", "#", "I", "N", "D">>, <<"-", "1", ".", "#", "I", "N", "D">>,
               <<"1", ".", "#", "Q", "N", "A", "N">>,
               <<"-", "1", ".", "#", "Q", "N", "A", "N">> }

\* pd.read_csv(DATA_FILE, dtype=str) on one field
ReadCsvCell(t) == IF t \in NA_VALUES THEN NaN ELSE t

\* Series.fillna(v)
fillna(c, v) == IF c = NaN THEN v ELSE c

\* a faulty variant: the text is not lower-cased before the map
NormalizeResolved_NoLower(t) ==
    LET s == fillna(ReadCsvCell(t), FalseText)
    IN  s = <<"t", "r", "u", "e">> \/ s = <<"1">>

\* Resolved on load: fillna("False"), lower, map {true,false,1,0}, fillna(False)
NormalizeResolved(t) ==
    LET s == lower(fillna(ReadCsvCell(t), FalseText))
    IN  s = <<"t", "r", "u", "e">> \/ s = <<"1">>

\* load_data on one row of the file
LoadRow(r) ==
    [c \in Range(columns) |->
        IF c = "Resolved" THEN NormalizeResolved(r[c])
        ELSE IF c \in {"ID", "DeletePassword", "EventDate", "Date"}
             THEN fillna(ReadCsvCell(r[c]), Empty)
             ELSE ReadCsvCell(r[c])]

\* load_data(): the empty table when the file is absent
load_data(f) == IF f.exists THEN [i \in 1..Len(f.rows) |-> LoadRow(f.rows[i])]
                ELSE <<>>

\* DataFrame.to_csv on one value: a missing value is written as the empty
\* field, a text as itself (quoted where needed, which the reader undoes)
ToCsvCell(v) == IF v = NaN THEN Empty ELSE v

\* DataFrame.to_csv on the boolean column: str(True), str(False)
ToCsvBool(b) == IF b THEN TrueText ELSE FalseText

ToCsvRow(r) == [c \in Range(columns) |->
                   IF c = "Resolved" THEN ToCsvBool(r[c]) ELSE ToCsvCell(r[c])]

\* save_data(df): the whole table overwrites the file
save_data(t) == [exists |-> TRUE, rows |-> [i \in 1..Len(t) |-> ToCsvRow(t[i])]]

\* ------------------------------------------------------------ messages
NoMsg == ""
ErrDescription == "Please enter a description."
ErrPhone == "Phone number must be exactly 8 digits."
ErrPassword == "Please set a delete password."
Posted == "Announcement posted successfully!"
NoMatch == "No announcements match the selected criteria."
Incorrect == "Incorrect password."
PleaseRefresh == "Please refresh manually to see changes."

\* ------------------------------------------------------------ Home page
Min(a, b) == IF a < b THEN a ELSE b
MaxOf(S) == CHOOSE x \in S : \A y \in S : y <= x

\* The name save_images gives the k-th file ever written: the timestamp and
\* uuid4 prefix is unique per file, modelled by the file's running number.
ImagePath(k, name) == IMAGES_FOLDER \o <<"/">> \o IntToStr(k) \o <<"_">> \o name

\* save_images(files): the first three files are written, the result is
\* padded to three paths with ""
save_images(files, n0) ==
    LET fs == SubSeq(files, 1, Min(3, Len(files)))
    IN  [i \in 1..3 |-> IF i <= Len(fs) THEN ImagePath(n0 + i, fs[i]) ELSE Empty]

FilesWritten(files) == Min(3, Len(files))

\* pd.to_numeric(df["ID"], errors="coerce").dropna().astype(int)
numeric_ids(t) == {StrToInt(t[i].ID) : i \in {j \in 1..Len(t) : isdigit(t[j].ID)}}

\* a faulty variant: the ID is the number of records plus one
new_id_ByCount(t) == IntToStr(Len(t) + 1)

\* a faulty variant: the smallest numeric ID plus one
new_id_FromMin(t) ==
    IF Len(t) = 0 THEN <<"1">>
    ELSE IF numeric_ids(t) # {}
         THEN IntToStr((CHOOSE x \in numeric_ids(t) : \A y \in numeric_ids(t) : x <= y) + 1)
         ELSE IntToStr(Len(t) + 1)

\* a faulty variant: the largest numeric ID, not incremented
new_id_NoIncrement(t) ==
    IF Len(t) = 0 THEN <<"1">>
    ELSE IF numeric_ids(t) # {} THEN IntToStr(MaxOf(numeric_ids(t)))
         ELSE IntToStr(Len(t) + 1)

\* "safe ID generation"
new_id(t) ==
    IF Len(t) = 0 THEN <<"1">>
    ELSE IF numeric_ids(t) # {} THEN IntToStr(MaxOf(numeric_ids(t)) + 1)
         ELSE IntToStr(Len(t) + 1)

\* a faulty variant: "and" in place of "or" in the phone check
ValidationError_PhoneAnd(inp) ==
    IF inp.description = Empty THEN ErrDescription
    ELSE IF Len(inp.phone) # 8 /\ ~isdigit(inp.phone) THEN ErrPhone
    ELSE IF inp.delete_password = Empty THEN ErrPassword
    ELSE NoMsg

\* the submission's checks, in the order of the if/elif chain
ValidationError(inp) ==
    IF inp.description = Empty THEN ErrDescription
    ELSE IF Len(inp.phone) # 8 \/ ~isdigit(inp.phone) THEN ErrPhone
    ELSE IF inp.delete_password = Empty THEN ErrPassword
    ELSE NoMsg

StoredPassword(pw) == strip(pw)

new_post(t, inp, paths, today) ==
    [ID |-> new_id(t),
     Type |-> lower(inp.post_type),
     Category |-> inp.category,
     City |-> inp.city,
     Description |-> inp.description,
     Image1 |-> paths[1],
     Image2 |-> paths[2],
     Image3 |-> paths[3],
     Phone |-> inp.phone,
     Date |-> strftime(today),
     EventDate |-> strftime(inp.event_date),
     DeletePassword |-> StoredPassword(inp.delete_password),
     Resolved |-> FALSE]

Today == [y |-> 2024, m |-> 6, d |-> 2]

HomePage == "Home"
ViewPage == "View Announcements"

\* One run of the script on the Home page, no button pressed.
Home(df0) ==
    /\ page' = HomePage
    /\ df' = df0
    /\ msg' = NoMsg
    /\ shown' = <<>>
    /\ UNCHANGED <<file, images, filt, pwOf, maxAssigned, hasRerun>>

\* One run of the script on the Home page with "Submit Announcement" pressed.
Submit(df0, inp) ==
    LET err == ValidationError(inp)
    IN  /\ page = HomePage
        /\ UNCHANGED <<page, filt, shown, hasRerun>>
        /\ IF err # NoMsg
           THEN /\ msg' = err
                /\ df' = df0
                /\ UNCHANGED <<file, images, pwOf, maxAssigned>>
           ELSE LET paths == save_images(inp.uploaded_files, images)
                    post == new_post(df0, inp, paths, Today)
                    df1 == Append(df0, post)
                IN  /\ StrToInt(post.ID) <= MaxId
                    /\ images + FilesWritten(inp.uploaded_files) <= MaxImages
                    /\ images' = images + FilesWritten(inp.uploaded_files)
                    /\ df' = df1
                    /\ file' = save_data(df1)
                    /\ msg' = Posted
                    /\ pwOf' = [x \in DOMAIN pwOf \cup {post.ID} |->
                                   IF x = post.ID THEN inp.delete_password ELSE pwOf[x]]
                    /\ maxAssigned' = IF StrToInt(post.ID) > maxAssigned
                                      THEN StrToInt(post.ID) ELSE maxAssigned

\* ------------------------------------------------------------ View page
NoDateFilter == "No date filter"
SpecificDate == "Specific date"
MonthAndYear == "Month and Year"

\* None of selected_date / selected_month / selected_year: a date or number
\* that is no date or month, the empty text
NoneDate == [y |-> 0, m |-> 0, d |-> 0]

CurrentYear == <<"2", "0", "2", "4">>

\* the options of the "Year" selectbox
years(t) ==
    IF Len(t) # 0
    THEN {Prefix(t[i].EventDate, 4) : i \in {j \in 1..Len(t) : strip(t[j].EventDate) # Empty}}
    ELSE {CurrentYear}

\* what st.selectbox("Year", years) can return: None (here "") on an empty list
YearChoices(t) == IF years(t) = {} THEN {Empty} ELSE years(t)

\* a faulty variant: the month is not zero-padded
MonthPrefix_NoZfill(f) == f.selected_year \o <<"-">> \o IntToStr(f.selected_month)

\* f"{selected_year}-{str(selected_month).zfill(2)}"
MonthPrefix(f) == f.selected_year \o <<"-">> \o zfill(IntToStr(f.selected_month), 2)

\* "Apply All Filters"
ApplyFilters(t, f) ==
    LET TypeIs(r) == r.Type = lower(f.filter_type)
        CityIs(r) == r.City = f.filter_city
        CategoryIs(r) == r.Category = f.filter_category
        Unresolved(r) == r.Resolved = FALSE
        DateIs(r) == r.EventDate = strftime(f.selected_date)
        MonthIs(r) == Prefix(r.EventDate, 7) = MonthPrefix(f)
        f1 == IF f.filter_type # All THEN SelectSeq(t, TypeIs) ELSE t
        f2 == IF f.filter_city # All THEN SelectSeq(f1, CityIs) ELSE f1
        f3 == IF f.filter_category # All THEN SelectSeq(f2, CategoryIs) ELSE f2
        f4 == IF ~f.show_resolved THEN SelectSeq(f3, Unresolved) ELSE f3
    IN  IF f.date_filter_option = SpecificDate /\ f.selected_date # NoneDate
        THEN SelectSeq(f4, DateIs)
        ELSE IF /\ f.date_filter_option = MonthAndYear
                /\ f.selected_month # 0
                /\ f.selected_year # Empty
             THEN SelectSeq(f4, MonthIs)
             ELSE f4

\* "Display Results": the info message of an empty view
ViewMsg(rows) == IF Len(rows) = 0 THEN NoMatch ELSE NoMsg

\* One run of the script on the View page, no button pressed: the page was
\* chosen in the sidebar or a filter widget was changed.
View(df0, f) ==
    /\ page' = ViewPage
    /\ df' = df0
    /\ filt' = f
    /\ shown' = ApplyFilters(df0, f)
    /\ msg' = ViewMsg(shown')
    /\ UNCHANGED <<file, images, pwOf, maxAssigned, hasRerun>>

\* the password comparison of "Mark as Resolved"
ResolveMatch(pw, row) == strip(pw) = strip(row.DeletePassword)

\* a faulty variant: "or" in place of "and"
DeleteMatch_Or(pw, row) == strip(pw) = strip(row.DeletePassword) \/ strip(pw) # Empty

\* the password comparison of "Delete Post"
DeleteMatch(pw, row) == strip(pw) = strip(row.DeletePassword) /\ strip(pw) # Empty

\* df.loc[df["ID"].astype(str) == str(row.get("ID")), "Resolved"] = True
MarkResolved(t, id) ==
    [j \in 1..Len(t) |-> IF t[j].ID = id THEN [t[j] EXCEPT !.Resolved = TRUE] ELSE t[j]]

\* df[df["ID"].astype(str) != str(row.get("ID"))]
RemoveById(t, id) ==
    LET Keep(r) == r.ID # id IN SelectSeq(t, Keep)

\* try_rerun() after the changed table t was saved and the success message
\* shown: st.experimental_rerun() restarts the script (the table is loaded
\* again and the view rendered again); where the runtime lacks it, the run
\* goes on with the rows it filtered before the change and asks for a
\* manual refresh.
try_rerun(t, rows) ==
    IF hasRerun
    THEN /\ df' = load_data(file')
         /\ shown' = ApplyFilters(df', filt)
         /\ msg' = ViewMsg(shown')
    ELSE /\ df' = t
         /\ shown' = rows
         /\ msg' = PleaseRefresh

\* One run on the View page with "Mark as Resolved" pressed on the k-th row
\* of the filtered table, pw typed in that row's input.  The widgets keep
\* the filter values of the last run.
Resolve(df0, k, pw) ==
    LET rows == ApplyFilters(df0, filt)
    IN  /\ page = ViewPage
        /\ k \in 1..Len(rows)
        /\ ~rows[k].Resolved
        /\ UNCHANGED <<images, pwOf, maxAssigned, page, filt, hasRerun>>
        /\ IF ResolveMatch(pw, rows[k])
           THEN /\ file' = save_data(MarkResolved(df0, rows[k].ID))
                /\ try_rerun(MarkResolved(df0, rows[k].ID), rows)
           ELSE /\ msg' = Incorrect
                /\ df' = df0
                /\ shown' = rows
                /\ UNCHANGED file

\* One run on the View page with "Delete Post" pressed on the k-th row of
\* the filtered table.
Delete(df0, k, pw) ==
    LET rows == ApplyFilters(df0, filt)
    IN  /\ page = ViewPage
        /\ k \in 1..Len(rows)
        /\ UNCHANGED <<images, maxAssigned, page, filt, hasRerun>>
        /\ IF DeleteMatch(pw, rows[k])
           THEN /\ file' = save_data(RemoveById(df0, rows[k].ID))
                /\ pwOf' = [x \in DOMAIN pwOf \ {rows[k].ID} |-> pwOf[x]]
                /\ try_rerun(RemoveById(df0, rows[k].ID), rows)
           ELSE /\ msg' = Incorrect
                /\ df' = df0
                /\ shown' = rows
                /\ UNCHANGED <<file, pwOf>>

\* ------------------------------------------------------------ inputs
Phone8 == <<"1", "2", "3", "4", "5", "6", "7", "8">>
Phone7 == <<"1", "2", "3", "4", "5", "6", "7">>
Phone9 == <<"1", "2", "3", "4", "5", "6", "7", "8", "9">>
Phone8x == <<"1", "2", "3", "4", "5", "6", "7", "a">>
May17 == [y |-> 2024, m |-> 5, d |-> 17]
June1 == [y |-> 2024, m |-> 6, d |-> 1]
May20of23 == [y |-> 2023, m |-> 5, d |-> 20]

BaseInput ==
    [post_type |-> Lost, category |-> Pets, city |-> Salmiya,
     description |-> <<"a">>, event_date |-> May17, phone |-> Phone8,
     delete_password |-> <<" ", "p">>, uploaded_files |-> <<>>]

OtherInput ==
    [BaseInput EXCEPT !.post_type = Found, !.category = Bags, !.city = KuwaitCity,
                      !.event_date = June1, !.delete_password = <<"N", "A">>,
                      !.uploaded_files = <<<<"x">>>>]

\* passwords typed in the forms: empty, blank, padded, an NA spelling
Passwords == {Empty, <<" ">>, <<" ", "p">>, <<"N", "A">>}

\* accepted: the base post, one with a blank password, one of another kind
\* with a picture; rejected: each check failing alone and before the others
SubmitInputs ==
    {BaseInput, [BaseInput EXCEPT !.delete_password = <<" ">>], OtherInput}
    \cup {[BaseInput EXCEPT !.phone = ph] : ph \in {Phone7, Phone9, Phone8x}}
    \cup {[BaseInput EXCEPT !.delete_password = Empty],
          [BaseInput EXCEPT !.description = Empty],
          [BaseInput EXCEPT !.phone = Phone7, !.delete_password = Empty],
          [OtherInput EXCEPT !.description = Empty, !.phone = Phone9,
                             !.delete_password = Empty],
          [OtherInput EXCEPT !.phone = Phone9]}

DefaultFilter ==
    [filter_type |-> All, filter_city |-> All, filter_category |-> All,
     show_resolved |-> FALSE, date_filter_option |-> NoDateFilter,
     selected_date |-> NoneDate, selected_month |-> 0, selected_year |-> Empty]

\* the views of the moderation runs: resolved posts hidden or included
ViewFilters == {[DefaultFilter EXCEPT !.show_resolved = b] : b \in BOOLEAN}

\* ------------------------------------------------------------ specification
Init ==
    /\ file = [exists |-> FALSE, rows |-> <<>>]
    /\ df = <<>>
    /\ images = 0
    /\ msg = NoMsg
    /\ filt = DefaultFilter
    /\ shown = <<>>
    /\ pwOf = <<>>
    /\ maxAssigned = 0
    /\ page = HomePage
    /\ hasRerun \in BOOLEAN

\* Every interaction re-runs the script, which starts with df = load_data().
Next ==
    LET df0 == load_data(file)
    IN  \/ Home(df0)
        \/ \E inp \in SubmitInputs : Submit(df0, inp)
        \/ \E f \in ViewFilters : View(df0, f)
        \/ \E k \in 1..MaxId, pw \in Passwords : Resolve(df0, k, pw)
        \/ \E k \in 1..MaxId, pw \in Passwords : Delete(df0, k, pw)

Spec == Init /\ [][Next]_vars

\* ------------------------------------------------------------ the filter alone
\* The browsing view on tables that submissions and resolves build, under
\* every combination of the filter widgets.
FilterItems ==
    << BaseInput,
       [BaseInput EXCEPT !.post_type = Found, !.event_date = June1],
       [BaseInput EXCEPT !.city = KuwaitCity, !.category = Bags],
       [BaseInput EXCEPT !.event_date = May20of23] >>

\* the table after the submissions items[1..n], the i-th then resolved iff res[i]
RECURSIVE BuildTable(_, _)
BuildTable(items, res) ==
    IF Len(items) = 0 THEN <<>>
    ELSE LET n == Len(items)
             t == BuildTable(SubSeq(items, 1, n - 1), SubSeq(res, 1, n - 1))
             post == new_post(t, FilterItems[items[n]], save_images(<<>>, 0), Today)
         IN  Append(t, [post EXCEPT !.Resolved = res[n]])

FilterTables ==
    UNION {{BuildTable(items, res) : items \in [1..n -> 1..Len(FilterItems)],
                                     res \in [1..n -> BOOLEAN]} : n \in 0..MaxRows}

FilterInputs(t) ==
    LET basic == {[DefaultFilter EXCEPT !.filter_type = ty, !.filter_city = ci,
                                        !.filter_category = ca, !.show_resolved = b] :
                     ty \in {All, Lost, Found}, ci \in {All, Salmiya},
                     ca \in {All, Pets}, b \in BOOLEAN}
    IN  basic
        \cup {[g EXCEPT !.date_filter_option = SpecificDate, !.selected_date = d] :
                 g \in basic, d \in {May17, June1}}
        \cup {[g EXCEPT !.date_filter_option = MonthAndYear, !.selected_month = m,
                        !.selected_year = y] :
                 g \in basic, m \in {5, 6}, y \in YearChoices(t)}

InitFilter ==
    /\ \E t \in FilterTables :
          /\ file = save_data(t)
          /\ filt \in FilterInputs(load_data(save_data(t)))
    /\ df = <<>>
    /\ images = 0
    /\ msg = NoMsg
    /\ shown = <<>>
    /\ pwOf = <<>>
    /\ maxAssigned = 0
    /\ page = HomePage
    /\ hasRerun = TRUE

\* the View page is opened with the widgets set to filt
NextFilter == page = HomePage /\ View(load_data(file), filt)

SpecFilter == InitFilter /\ [][NextFilter]_vars

\* ------------------------------------------------------------ properties
IdsOf(t) == {t[i].ID : i \in 1..Len(t)}
RowOf(t, id) == t[CHOOSE i \in 1..Len(t) : t[i].ID = id]
IsError(m) == m \in {ErrDescription, ErrPhone, ErrPassword}
\* the step is an accepted submission
Accepted == msg' = Posted /\ file' # file

C2_CorrectPasswordTakesEffect ==
    [][LET df0 == load_data(file)
           rows == ApplyFilters(df0, filt)
       IN  \A k \in 1..Len(rows) :
              rows[k].ID \in DOMAIN pwOf
              => /\ Resolve(df0, k, pwOf[rows[k].ID])
                    => /\ rows[k].ID \in IdsOf(df')
                       /\ RowOf(df', rows[k].ID).Resolved
                       /\ file' = save_data(df')
                 /\ Delete(df0, k, pwOf[rows[k].ID])
                    => /\ rows[k].ID \notin IdsOf(df')
                       /\ file' = save_data(df')]_vars

\* C3: no two records of the table, in memory or in the file, share an ID.
C3_UniqueIds ==
    /\ \A i, j \in 1..Len(df) : df[i].ID = df[j].ID => i = j
    /\ \A i, j \in 1..Len(file.rows) : file.rows[i].ID = file.rows[j].ID => i = j

\* a second record was posted next to the first
C3_Witness ==
    /\ Len(file.rows) >= 2
    /\ msg = Posted
    /\ Cardinality(DOMAIN pwOf) = Len(file.rows)
    /\ maxAssigned >= 2

\* C4: an accepted submission gives the new record the ID 1 when the table
\* was empty, and otherwise the largest numeric ID of the table plus one,
\* which is greater than every numeric ID that was in the table.
C4_NewIdAboveExisting ==
    [][Accepted =>
         LET old == load_data(file)
             post == df'[Len(df')]
         IN  IF Len(old) = 0 THEN post.ID = <<"1">>
             ELSE /\ isdigit(post.ID)
                  /\ \A i \in 1..Len(old) :
                        isdigit(old[i].ID) => StrToInt(post.ID) > StrToInt(old[i].ID)
                  /\ \E i \in 1..Len(old) :
                        isdigit(old[i].ID) /\ StrToInt(post.ID) = StrToInt(old[i].ID) + 1]_vars

\* a submission was accepted on a non-empty table
C4_Witness ==
    /\ msg = Posted
    /\ Len(df) >= 2
    /\ df[Len(df)].ID = <<"2">>

\* C5: a submission is rejected exactly when the description is empty, the
\* phone is not 8 digits or the password is empty; the error is that of the
\* first failing check (description, phone, password); a rejected submission
\* leaves the table, the file and the image directory unchanged.
EightDigits(ph) == Len(ph) = 8 /\ \A i \in 1..Len(ph) : IsDigitChar(ph[i])
ExpectedMsg(inp) ==
    IF inp.description = Empty THEN ErrDescription
    ELSE IF ~EightDigits(inp.phone) THEN ErrPhone
    ELSE IF inp.delete_password = Empty THEN ErrPassword
    ELSE Posted

C5_RejectedSubmissionWritesNothing ==
    [][LET df0 == load_data(file)
       IN  \A inp \in SubmitInputs :
              Submit(df0, inp)
              => /\ msg' = ExpectedMsg(inp)
                 /\ IsError(msg') <=> \/ inp.description = Empty
                                      \/ ~EightDigits(inp.phone)
                                      \/ inp.delete_password = Empty
                 /\ IsError(msg') => /\ file' = file
                                     /\ df' = df0
                                     /\ images' = images
                                     /\ maxAssigned' = maxAssigned]_vars

\* a submission was rejected for its phone on a table holding a record
C5_Witness ==
    /\ msg = ErrPhone
    /\ Len(file.rows) >= 1
    /\ df = load_data(file)

\* C6: a record with Resolved = true keeps it, in the table and in the file,
\* until the record is deleted; a new record starts with Resolved = false.
C6_ResolvedStays ==
    [][/\ \A i \in 1..Len(file.rows) :
             file.rows[i].Resolved = TrueText
             => \A j \in 1..Len(file'.rows) :
                   file'.rows[j].ID = file.rows[i].ID => file'.rows[j].Resolved = TrueText
       /\ \A i \in 1..Len(df) :
             df[i].Resolved
             => \A j \in 1..Len(df') : df'[j].ID = df[i].ID => df'[j].Resolved
       /\ \A i \in 1..Len(load_data(file)) :
             load_data(file)[i].Resolved
             => \A j \in 1..Len(load_data(file')) :
                   load_data(file')[j].ID = load_data(file)[i].ID
                   => load_data(file')[j].Resolved
       /\ Accepted => /\ df'[Len(df')].Resolved = FALSE
                      /\ file'.rows[Len(file'.rows)].Resolved = FalseText]_vars

\* a record was posted while the table held a resolved record
C6_Witness ==
    /\ msg = Posted
    /\ Len(df) >= 2
    /\ df[1].Resolved
    /\ file.rows[1].Resolved = TrueText
    /\ ~df[Len(df)].Resolved

\* C7: every record of the table holds a DeletePassword of length >= 1.
C7_PasswordNonEmpty ==
    /\ \A i \in 1..Len(df) : df[i].DeletePassword # NaN /\ Len(df[i].DeletePassword) >= 1
    /\ \A i \in 1..Len(file.rows) : Len(file.rows[i].DeletePassword) >= 1

\* C8: the view shows exactly the records that satisfy every active filter:
\* Type (lower-cased choice), City, Category, resolved hidden unless included,
\* and the date filter (the chosen date, or year-month with the month
\* zero-padded against the first 7 characters of EventDate).
YearMonth(y, m) == y \o <<"-">> \o (IF m < 10 THEN <<"0">> ELSE <<>>) \o IntToStr(m)
Matches(r, f) ==
    /\ f.filter_type = All \/ r.Type = lower(f.filter_type)
    /\ f.filter_city = All \/ r.City = f.filter_city
    /\ f.filter_category = All \/ r.Category = f.filter_category
    /\ f.show_resolved \/ r.Resolved = FALSE
    /\ \/ f.date_filter_option = NoDateFilter
       \/ f.date_filter_option = SpecificDate /\ r.EventDate = strftime(f.selected_date)
       \/ /\ f.date_filter_option = MonthAndYear
          /\ Len(r.EventDate) >= 7
          /\ SubSeq(r.EventDate, 1, 7) = YearMonth(f.selected_year, f.selected_month)

C8_ViewShowsMatches ==
    page = ViewPage =>
        LET Match(r) == Matches(r, filt)
        IN  /\ \A i \in 1..Len(df) : (df[i] \in Range(shown)) <=> Matches(df[i], filt)
            /\ shown = SelectSeq(df, Match)

\* Month and Year = May 2024 shows a record of 2024-05-17 and hides one of
\* 2024-06-01; City = Salmiya with Type = Lost shows only such records
C8_Witness ==
    /\ page = ViewPage
    /\ filt.date_filter_option = MonthAndYear
    /\ filt.selected_month = 5
    /\ filt.selected_year = <<"2", "0", "2", "4">>
    /\ filt.filter_city = Salmiya
    /\ filt.filter_type = Lost
    /\ \E i \in 1..Len(df) : df[i].EventDate = strftime(June1) /\ df[i] \notin Range(shown)
    /\ \E i \in 1..Len(df) : df[i].EventDate = strftime(May17) /\ df[i] \in Range(shown)

\* C9: save_data then load_data returns the table: the same records in the
\* same order, every field the same text (a missing value counted as the
\* empty text), Resolved the same boolean.
SameText(a, b) == fillna(a, Empty) = fillna(b, Empty)
C9_SaveLoadRoundTrip ==
    LET back == load_data(save_data(df))
    IN  /\ Len(back) = Len(df)
        /\ \A i \in 1..Len(df) :
              /\ back[i].Resolved = df[i].Resolved
              /\ \A c \in Range(columns) \ {"Resolved"} : SameText(back[i][c], df[i][c])

\* C10: an accepted submission gets an ID greater than the ID of every
\* earlier accepted submission, so no ID is ever assigned twice.
C10_NeverReassigned ==
    [][Accepted => StrToInt(df'[Len(df')].ID) > maxAssigned]_vars

\* C10 amended: the records of the table carry strictly increasing IDs in
\* the order they were posted: a submission gets an ID greater than that of
\* every earlier submission whose record is still in the table.
C10_IdsIncreaseInTable ==
    /\ \A i, j \in 1..Len(df) :
          i < j => StrToInt(df[i].ID) < StrToInt(df[j].ID)
    /\ \A i, j \in 1..Len(file.rows) :
          i < j => StrToInt(file.rows[i].ID) < StrToInt(file.rows[j].ID)

\* a record was posted after both earlier records had been deleted
C10_Witness ==
    /\ msg = Posted
    /\ Len(df) = 1
    /\ maxAssigned = 2

====
